---- MODULE Spec2Model ----
(***************************************************************************)
(* The eskip lexer (src/eskip/lexer.go) as a state machine.                *)
(*                                                                         *)
(* Strings are sequences of characters; a character is a one-character    *)
(* string, except the double quote and the backtick, which are written DQ  *)
(* and BT.  Positions inside a string are 1-based: position p means "the   *)
(* next character is s[p]", so p ranges over 1..Len(s)+1.                  *)
(*                                                                         *)
(* The merged token expression is matched the way Go's regexp package      *)
(* matches it: leftmost-first (the alternatives and the greedy repetitions *)
(* are tried in priority order and the first complete match wins), and a   *)
(* program state that was already entered at the same input position is    *)
(* not entered again.                                                      *)
(***************************************************************************)
EXTENDS Integers, Sequences, FiniteSets, TLC

VARIABLES
    pc,            \* "idle" before newLexer, "lex" once the instance exists
    rxStar,        \* how regexp compiled the star of the nullable skip group
    input,         \* the argument of newLexer (history, never changed)
    tokenRxs,      \* eskipLex.tokenRxs
    code,          \* eskipLex.code
    lastToken,     \* eskipLex.lastToken
    lastRaw,       \* eskipLex.lastRaw
    lastPosition,  \* eskipLex.lastPosition
    err,           \* eskipLex.err, <<>> is nil
    ret,           \* what the last Lex call returned, 0 before the first call
    lval,          \* lval.token of the caller's eskipSymType
    m,             \* the m of the last Lex call, <<>> if it had or found none
    emitted,       \* history: the [t, s, raw] of every successful Lex call
    calls,         \* history: the number of Lex calls made
    built,         \* history: how often a merged expression was compiled
    sess,          \* the newLexer call of every goroutine: its position and locals
    filters,       \* chain.filters: for every child, whether its Request serves
    phase,         \* which hooks of the chain filter have run for the request
    served,        \* ctx.Served()
    stateBag,      \* ctx.StateBag(): <<>>, or <<i>> under fashionStoreExitIndex
    requested,     \* history: the children whose Request was invoked, in order
    responded,     \* history: the children whose Response was invoked, in order
    us,            \* unescape: argument s
    uchars,        \* unescape: argument chars
    ures           \* unescape: <<TRUE, result>> once called

lexVars == <<pc, rxStar, input, tokenRxs, code, lastToken, lastRaw,
             lastPosition, err, ret, lval, m, emitted, calls>>
unVars == <<us, uchars, ures>>
sessVars == <<built, sess>>
chainVars == <<filters, phase, served, stateBag, requested, responded>>
vars == <<pc, rxStar, input, tokenRxs, code, lastToken, lastRaw,
          lastPosition, err, ret, lval, m, emitted, calls, built, sess,
          us, uchars, ures,
          filters, phase, served, stateBag, requested, responded>>

\* ----------------------------------------------------------------- bounds
MaxLen == 4
MaxUnLen == 4
\* Lex calls the caller still makes after the first that returned -1
MaxMore == 1
\* goroutines that each create a lexer
MaxProcs == 2
\* children of a chain filter
MaxFilters == 5

\* ------------------------------------------------------ character classes
BS == "\\"
DQ == "DQ"
BT == "BT"
SL == "/"
NL == "\n"

Space == {" ", "\t", "\n", "\f", "\r"}
Digit == {"0", "1", "2", "3", "4", "5", "6", "7", "8", "9"}
Letter == {"a", "b", "c", "d", "e", "f", "g", "h", "i", "j", "k", "l", "m",
           "n", "o", "p", "q", "r", "s", "t", "u", "v", "w", "x", "y", "z",
           "A", "B", "C", "D", "E", "F", "G", "H", "I", "J", "K", "L", "M",
           "N", "O", "P", "Q", "R", "S", "T", "U", "V", "W", "X", "Y", "Z"}
Word == Letter \cup Digit \cup {"_"}

StringsOver(A, n) == UNION {[1..k -> A] : k \in 0..n}

Slice(s, from, to) == SubSeq(s, from, to - 1)

\* ------------------------------------------------------------ token table
\* The token constants of the generated parser, in the order of the table.
and == 1
arrow == 2
closeparen == 3
colon == 4
comma == 5
number == 6
openparen == 7
regexpliteral == 8
semicolon == 9
shunt == 10
stringliteral == 11
symbol == 12

initialCaptureGroups == 3

\* The expressions of the table, by what they match:
\*   lit:     the characters of text, one after the other
\*   number:  [0-9]*[.]?[0-9]+
\*   delim:   open ( BS BS | BS esc | [^notc] )* close, one capture group
\*   symbol:  [a-zA-Z_]\w*
Lit(text) == [kind |-> "lit", text |-> text]
Delim(open, esc, notc, close) ==
    [kind |-> "delim", open |-> open, esc |-> esc, notc |-> notc, close |-> close]

tokenRxTable == <<
    [token |-> and,           expression |-> Lit(<<"&", "&">>),      captureGroups |-> 0],
    [token |-> arrow,         expression |-> Lit(<<"-", ">">>),      captureGroups |-> 0],
    [token |-> closeparen,    expression |-> Lit(<<")">>),           captureGroups |-> 0],
    [token |-> colon,         expression |-> Lit(<<":">>),           captureGroups |-> 0],
    [token |-> comma,         expression |-> Lit(<<",">>),           captureGroups |-> 0],
    [token |-> number,        expression |-> [kind |-> "number"],    captureGroups |-> 0],
    [token |-> openparen,     expression |-> Lit(<<"(">>),           captureGroups |-> 0],
    [token |-> regexpliteral, expression |-> Delim(SL, SL, SL, SL),  captureGroups |-> 1],
    [token |-> semicolon,     expression |-> Lit(<<";">>),           captureGroups |-> 0],
    [token |-> shunt,         expression |-> Lit(<<"<", "s", "h", "u", "n", "t", ">">>),
                                                                     captureGroups |-> 0],
    [token |-> stringliteral, expression |-> Delim(DQ, DQ, DQ, DQ),  captureGroups |-> 1],
    [token |-> stringliteral, expression |-> Delim(BT, BT, DQ, BT),  captureGroups |-> 1],
    [token |-> symbol,        expression |-> [kind |-> "symbol"],    captureGroups |-> 0] >>

RECURSIVE assignMatchIndexFlat(_, _, _)
\* faulty variant: the groups inside the expressions are not counted
assignMatchIndexFlat(i, captureGroups, done) ==
    IF i > Len(tokenRxTable) THEN done
    ELSE assignMatchIndexFlat(
            i + 1,
            captureGroups,
            Append(done, [token         |-> tokenRxTable[i].token,
                          expression    |-> tokenRxTable[i].expression,
                          captureGroups |-> tokenRxTable[i].captureGroups,
                          matchIndex    |-> (i - 1) + captureGroups]))

RECURSIVE assignMatchIndexLate(_, _, _)
\* faulty variant: the groups inside an expression are counted before its index is set
assignMatchIndexLate(i, captureGroups, done) ==
    IF i > Len(tokenRxTable) THEN done
    ELSE assignMatchIndexLate(
            i + 1,
            captureGroups + tokenRxTable[i].captureGroups,
            Append(done, [token         |-> tokenRxTable[i].token,
                          expression    |-> tokenRxTable[i].expression,
                          captureGroups |-> tokenRxTable[i].captureGroups,
                          matchIndex    |-> (i - 1) + captureGroups
                                              + tokenRxTable[i].captureGroups]))

\* The loop of newLexer that gives every table entry its matchIndex; i counts
\* from 1 here and from 0 in the source.
RECURSIVE assignMatchIndex(_, _, _)
assignMatchIndex(i, captureGroups, done) ==
    IF i > Len(tokenRxTable) THEN done
    ELSE assignMatchIndex(
            i + 1,
            captureGroups + tokenRxTable[i].captureGroups,
            Append(done, [token         |-> tokenRxTable[i].token,
                          expression    |-> tokenRxTable[i].expression,
                          captureGroups |-> tokenRxTable[i].captureGroups,
                          matchIndex    |-> (i - 1) + captureGroups]))

\* --------------------------------------------- the merged token expression
\* rxFmt with the joined "(%s)" of every table entry: group 1 is the leading
\* skip group, group 2 wraps the alternatives, then every alternative opens
\* its own group followed by the groups inside its expression, and the last
\* group is the trailing skip group.
GroupsIn(expression) == IF expression.kind = "delim" THEN 1 ELSE 0

RECURSIVE GroupOf(_)
GroupOf(i) ==
    IF i = 1 THEN 3 ELSE GroupOf(i - 1) + 1 + GroupsIn(tokenRxTable[i - 1].expression)

NumGroups == GroupOf(Len(tokenRxTable)) + GroupsIn(tokenRxTable[Len(tokenRxTable)].expression) + 1

RECURSIVE Run(_, _, _)
\* how many characters of class C follow each other from position p
Run(s, p, C) == IF p <= Len(s) /\ s[p] \in C THEN 1 + Run(s, p + 1, C) ELSE 0

RECURSIVE FirstNL(_, _)
\* the position of the first newline at or after p, 0 if there is none
FirstNL(s, p) ==
    IF p > Len(s) THEN 0 ELSE IF s[p] = NL THEN p ELSE FirstNL(s, p + 1)

StartsComment(s, p) == p + 1 <= Len(s) /\ s[p] = SL /\ s[p + 1] = SL

\* //.*\r?\n at p: the position after it, 0 if it does not match ('.' does
\* not match a newline, so the match ends after the first one)
CommentLineEnd(s, p) ==
    IF StartsComment(s, p) /\ FirstNL(s, p + 2) # 0 THEN FirstNL(s, p + 2) + 1 ELSE 0

\* //.*$ at p: the position after it, 0 if it does not match
CommentTextEnd(s, p) ==
    IF StartsComment(s, p) /\ FirstNL(s, p + 2) = 0 THEN Len(s) + 1 ELSE 0

\* (\s*|//.*\r?\n|//.*$)* entered at p: the ways to leave the group, in the
\* order the matcher tries them, each with the position it leaves at and the
\* text of the group's last iteration.  An iteration is entered
\*   "first":  from outside the group,
\*   "again":  from the loop, after an iteration that ended in a comment,
\*   "spaced": from the loop, after an iteration of \s* (which is not entered
\*             again at the position where it just ended).
\* An iteration of \s* that took nothing leads back to the loop at the same
\* position, which the matcher entered already, so nothing comes of it. The
\* one exception: with star = "questplus" (e* compiled as (e+)?, not as a
\* loop) the first iteration reaches the loop for the first time, and the
\* matcher leaves the group from there before it tries the comments.
RECURSIVE SkipIter(_, _, _, _), SkipSpaces(_, _, _, _, _), SkipLoop(_, _, _, _)
SkipComments(s, p, star) ==
    (IF CommentLineEnd(s, p) # 0
     THEN SkipLoop(s, CommentLineEnd(s, p), Slice(s, p, CommentLineEnd(s, p)), star)
     ELSE <<>>)
    \o
    (IF CommentTextEnd(s, p) # 0
     THEN SkipLoop(s, CommentTextEnd(s, p), Slice(s, p, CommentTextEnd(s, p)), star)
     ELSE <<>>)

\* the first alternative, \s*, having taken the characters from p to k - 1
SkipSpaces(s, p, k, entry, star) ==
    IF k = p
    THEN IF star = "questplus" /\ entry = "first"
         THEN <<[pos |-> p, cap |-> <<>>]>> ELSE <<>>
    ELSE SkipIter(s, k, "spaced", star) \o <<[pos |-> k, cap |-> Slice(s, p, k)]>>
         \o SkipSpaces(s, p, k - 1, entry, star)

\* one iteration entered at p
SkipIter(s, p, entry, star) ==
    (IF entry # "spaced" THEN SkipSpaces(s, p, p + Run(s, p, Space), entry, star)
     ELSE <<>>)
    \o SkipComments(s, p, star)

\* the loop at p after an iteration that matched cap: another iteration
\* first, leaving the group after it
SkipLoop(s, p, cap, star) ==
    SkipIter(s, p, "again", star) \o <<[pos |-> p, cap |-> cap]>>

SkipExits(s, p, star) ==
    SkipIter(s, p, "first", star) \o <<[pos |-> p, cap |-> <<>>]>>

\* A token expression at p: <<>> if it does not match, otherwise
\* [end |-> the position after the match, inner |-> the text of the
\* expression's own group, <<>> if it has none or it took no part].
NoMatch == <<>>

IsPrefixAt(text, s, p) ==
    /\ p + Len(text) - 1 <= Len(s)
    /\ \A k \in 1..Len(text) : s[p + k - 1] = text[k]

MatchLit(e, s, p) ==
    IF IsPrefixAt(e.text, s, p) THEN [end |-> p + Len(e.text), inner |-> <<>>]
    ELSE NoMatch

\* [0-9]+ at p, greedy; nothing follows it inside the expression
DigitsEnd(s, p) == IF Run(s, p, Digit) >= 1 THEN p + Run(s, p, Digit) ELSE 0

\* faulty variant: the number expression as [0-9]+[.]?[0-9]*, the digits
\* required before the dot instead of after it
MatchNumberFromDotLast(s, p, n) ==
    IF n = 0 THEN NoMatch
    ELSE IF p + n <= Len(s) /\ s[p + n] = "."
    THEN [end |-> p + n + 1 + Run(s, p + n + 1, Digit), inner |-> <<>>]
    ELSE [end |-> p + n, inner |-> <<>>]

RECURSIVE MatchNumberFrom(_, _, _)
\* [0-9]* having taken n digits from p: first with the dot, then without
\* it, then with one digit less
MatchNumberFrom(s, p, n) ==
    IF p + n <= Len(s) /\ s[p + n] = "." /\ DigitsEnd(s, p + n + 1) # 0
    THEN [end |-> DigitsEnd(s, p + n + 1), inner |-> <<>>]
    ELSE IF DigitsEnd(s, p + n) # 0
    THEN [end |-> DigitsEnd(s, p + n), inner |-> <<>>]
    ELSE IF n = 0 THEN NoMatch
    ELSE MatchNumberFrom(s, p, n - 1)

MatchNumber(s, p) == MatchNumberFrom(s, p, Run(s, p, Digit))

\* faulty variant: the symbol expression as \w*, which matches the empty string
MatchSymbolEmpty(s, p) == [end |-> p + Run(s, p, Word), inner |-> <<>>]

MatchSymbol(s, p) ==
    IF p <= Len(s) /\ s[p] \in Letter \cup {"_"}
    THEN [end |-> p + 1 + Run(s, p + 1, Word), inner |-> <<>>]
    ELSE NoMatch

RECURSIVE MatchDelimBody(_, _, _, _)
\* ( BS BS | BS esc | [^notc] )* close at k, the group holding cap so far
MatchDelimBody(e, s, k, cap) ==
    LET two == k + 1 <= Len(s) /\ s[k] = BS
        a1  == IF two /\ s[k + 1] = BS
               THEN MatchDelimBody(e, s, k + 2, <<BS, BS>>) ELSE NoMatch
        a2  == IF two /\ s[k + 1] = e.esc
               THEN MatchDelimBody(e, s, k + 2, <<BS, e.esc>>) ELSE NoMatch
        a3  == IF k <= Len(s) /\ s[k] # e.notc
               THEN MatchDelimBody(e, s, k + 1, <<s[k]>>) ELSE NoMatch
    IN  IF a1 # NoMatch THEN a1
        ELSE IF a2 # NoMatch THEN a2
        ELSE IF a3 # NoMatch THEN a3
        ELSE IF k <= Len(s) /\ s[k] = e.close THEN [end |-> k + 1, inner |-> cap]
        ELSE NoMatch

MatchDelim(e, s, p) ==
    IF p <= Len(s) /\ s[p] = e.open THEN MatchDelimBody(e, s, p + 1, <<>>)
    ELSE NoMatch

MatchExpression(e, s, p) ==
    CASE e.kind = "lit"    -> MatchLit(e, s, p)
      [] e.kind = "number" -> MatchNumber(s, p)
      [] e.kind = "delim"  -> MatchDelim(e, s, p)
      [] e.kind = "symbol" -> MatchSymbol(s, p)

\* the alternatives of group 2 at p, in the order of the table: the first
\* that matches, as [alt, end, inner], or NoMatch
RECURSIVE MatchAlternatives(_, _, _)
MatchAlternatives(s, p, i) ==
    IF i > Len(tokenRxTable) THEN NoMatch
    ELSE LET r == MatchExpression(tokenRxTable[i].expression, s, p)
         IN  IF r # NoMatch THEN [alt |-> i, end |-> r.end, inner |-> r.inner]
             ELSE MatchAlternatives(s, p, i + 1)

\* the first way out of the leading skip group after which a token matches
RECURSIVE FirstLead(_, _, _)
FirstLead(s, exits, i) ==
    IF i > Len(exits) THEN NoMatch
    ELSE LET r == MatchAlternatives(s, exits[i].pos, 1)
         IN  IF r # NoMatch THEN [lead |-> exits[i], tok |-> r]
             ELSE FirstLead(s, exits, i + 1)

\* The text of every group of a match that left the leading skip group as
\* f.lead, matched the token f.tok and left the trailing skip group as trail.
Submatches(s, f, trail) ==
    LET from == f.lead.pos
        to   == f.tok.end
        g    == GroupOf(f.tok.alt)
    IN  [k \in 0..NumGroups |->
           CASE k = 0         -> Slice(s, 1, trail.pos)
             [] k = 1         -> f.lead.cap
             [] k = 2         -> Slice(s, from, to)
             [] k = g         -> Slice(s, from, to)
             [] k = NumGroups -> trail.cap
             [] OTHER         ->
                  IF k = g + 1 /\ GroupsIn(tokenRxTable[f.tok.alt].expression) = 1
                  THEN f.tok.inner ELSE <<>>]

\* rx.FindStringSubmatch(s): <<>> if the expression does not match at the
\* start of s, otherwise the function from 0..NumGroups to the text of the
\* whole match (0) and of every group (the empty string for a group that
\* took no part in the match).  The trailing skip group cannot fail, so the
\* match ends at the first way out of it.
\* (A value that is used more than once is bound through a one-element set,
\* which evaluates it once.)
FindStringSubmatch(s, star) ==
    CHOOSE found \in
        { IF f = NoMatch THEN <<>>
          ELSE CHOOSE sub \in { Submatches(s, f, trail) :
                                  trail \in {SkipExits(s, f.tok.end, star)[1]} } : TRUE
          : f \in {FirstLead(s, SkipExits(s, 1, star), 1)} } : TRUE

\* ------------------------------------------------------------- converters
Contains(chars, c) == \E k \in 1..Len(chars) : chars[k] = c

RECURSIVE unescapeFromStripping(_, _, _, _, _)
\* faulty variant: the backslash of an escape that is not allowed is dropped
unescapeFromStripping(s, chars, i, escaped, r) ==
    IF i > Len(s) THEN r
    ELSE LET c == s[i]
         IN  CASE escaped ->
                    unescapeFromStripping(s, chars, i + 1, FALSE, Append(r, c))
               [] ~escaped /\ c = BS ->
                    unescapeFromStripping(s, chars, i + 1, TRUE, r)
               [] OTHER ->
                    unescapeFromStripping(s, chars, i + 1, escaped, Append(r, c))

RECURSIVE unescapeFrom(_, _, _, _, _)
\* the loop of unescape, about to read s[i] (i counts from 1)
unescapeFrom(s, chars, i, escaped, r) ==
    IF i > Len(s) THEN r
    ELSE LET c == s[i]
         IN  CASE escaped /\ Contains(chars, c) ->
                    unescapeFrom(s, chars, i + 1, FALSE, Append(r, c))
               [] escaped /\ ~Contains(chars, c) ->
                    unescapeFrom(s, chars, i + 1, FALSE, r \o <<BS, c>>)
               [] ~escaped /\ c = BS ->
                    unescapeFrom(s, chars, i + 1, TRUE, r)
               [] OTHER ->
                    unescapeFrom(s, chars, i + 1, escaped, Append(r, c))

unescape(s, chars) == unescapeFrom(s, chars, 1, FALSE, <<>>)

\* s[1 : len(s)-1]
Strip(s) == SubSeq(s, 2, Len(s) - 1)

convertString(s) ==
    IF s[1] = BT THEN Strip(s) ELSE unescape(Strip(s), <<BS, DQ>>)

convertRegexp(s) == unescape(Strip(s), <<SL>>)


DigitChars == <<"0", "1", "2", "3", "4", "5", "6", "7", "8", "9">>
DigitValue(c) == (CHOOSE d \in 1..10 : DigitChars[d] = c) - 1

RECURSIVE ParseDecimal(_, _, _, _, _)
\* the digits of s from i on: mant / 10^scale, dot telling whether the
\* decimal point was read; <<>> if s is no decimal number
ParseDecimal(s, i, mant, scale, dot) ==
    IF i > Len(s) THEN <<mant, scale>>
    ELSE IF s[i] \in Digit
    THEN ParseDecimal(s, i + 1, 10 * mant + DigitValue(s[i]),
                      IF dot THEN scale + 1 ELSE scale, dot)
    ELSE IF s[i] = "." /\ ~dot THEN ParseDecimal(s, i + 1, mant, scale, TRUE)
    ELSE <<>>

RECURSIVE Reduce(_, _)
\* the same value with no trailing zero after the decimal point
Reduce(mant, scale) ==
    IF scale > 0 /\ mant % 10 = 0 THEN Reduce(mant \div 10, scale - 1)
    ELSE <<"float64", mant, scale>>

\* strconv.ParseFloat(s, 64) with the error dropped: the value mant / 10^scale
\* as <<"float64", mant, scale>>, 0 if s is no number
convertNumber(s) ==
    CHOOSE n \in { IF d = <<>> THEN <<"float64", 0, 0>> ELSE Reduce(d[1], d[2])
                   : d \in {ParseDecimal(s, 1, 0, 0, FALSE)} } : TRUE

\* ------------------------------------------------------------------ lexer
\* l.Error(msg): the pieces of the formatted message
Error(token, position, msg) ==
    <<"parse failed after token ", token, ", position ", position, ": ", msg>>

\* faulty variant: the position counts one more character per call
stepPositionOffByOne(position, raw) == position + Len(raw) + 1

\* faulty variant: the position is not stepped
stepPositionNone(position, raw) == position

\* l.lastPosition += len(l.lastRaw)
stepPosition(position, raw) == position + Len(raw)

\* faulty variant: a failed match drops the rest of the code
matchTokenDropRest(c, star) ==
    CHOOSE r \in
        { IF found = <<>>
          THEN [m |-> found, lastRaw |-> <<>>, code |-> <<>>]
          ELSE [m |-> found, lastRaw |-> found[0],
                code |-> SubSeq(c, Len(found[0]) + 1, Len(c))]
          : found \in {FindStringSubmatch(c, star)} } : TRUE

\* faulty variant: a match leaves the code as it was
matchTokenKeepCode(c, star) ==
    CHOOSE r \in
        { IF found = <<>>
          THEN [m |-> found, lastRaw |-> <<>>, code |-> c]
          ELSE [m |-> found, lastRaw |-> found[0], code |-> c]
          : found \in {FindStringSubmatch(c, star)} } : TRUE

\* l.matchToken(): the submatches and the lastRaw and code it leaves
matchToken(c, star) ==
    CHOOSE r \in
        { IF found = <<>>
          THEN [m |-> found, lastRaw |-> <<>>, code |-> c]
          ELSE [m |-> found, lastRaw |-> found[0],
                code |-> SubSeq(c, Len(found[0]) + 1, Len(c))]
          : found \in {FindStringSubmatch(c, star)} } : TRUE

RECURSIVE getTokenFromInner(_, _, _)
\* faulty variant: reads the group inside the expression where there is one
getTokenFromInner(rxs, found, i) ==
    IF i > Len(rxs) THEN [t |-> -1, s |-> <<>>]
    ELSE IF Len(found[rxs[i].matchIndex]) # 0
    THEN [t |-> rxs[i].token, s |-> found[rxs[i].matchIndex + rxs[i].captureGroups]]
    ELSE getTokenFromInner(rxs, found, i + 1)

RECURSIVE getTokenFrom(_, _, _)
\* the loop of getToken, about to look at rxs[i]
getTokenFrom(rxs, found, i) ==
    IF i > Len(rxs) THEN [t |-> -1, s |-> <<>>]
    ELSE IF Len(found[rxs[i].matchIndex]) # 0
    THEN [t |-> rxs[i].token, s |-> found[rxs[i].matchIndex]]
    ELSE getTokenFrom(rxs, found, i + 1)

\* l.getToken(m)
getToken(rxs, found) == getTokenFrom(rxs, found, 1)

SkipChars == {" ", NL, SL, "a", "@"}
LiteralChars == {DQ, BT, BS, SL, "a"}
NumberChars == {"5", ".", "a", ";"}
\* inputs longer than MaxLen or outside these alphabets
NumberTexts == {<<"1", "2", ".", "5">>, <<".", "5">>, <<"5", ".">>}
LiteralTexts == {<<BT, "a", BT, " ", BT, "b", BT>>, <<" ", SL, BS, SL>>,
                 <<DQ, "a", BS, DQ, "b", DQ>>}
TableTexts == {tokenRxTable[i].expression.text :
                 i \in {j \in 1..Len(tokenRxTable) : tokenRxTable[j].expression.kind = "lit"}}

Inputs ==
    StringsOver(SkipChars, MaxLen) \cup StringsOver(LiteralChars, MaxLen)
        \cup StringsOver(NumberChars, MaxLen) \cup TableTexts
        \cup NumberTexts \cup LiteralTexts

UnescapeChars == {BS, DQ, SL, "a"}
UnescapeSets == {<<BS, DQ>>, <<SL>>}

LexIdle ==
    /\ pc = "idle"
    /\ input = <<>>
    /\ tokenRxs = <<>>
    /\ code = <<>>
    /\ lastToken = <<>>
    /\ lastRaw = <<>>
    /\ lastPosition = 0
    /\ err = <<>>
    /\ ret = 0
    /\ lval = <<>>
    /\ m = <<>>
    /\ emitted = <<>>
    /\ calls = 0

UnescapeIdle == us = <<>> /\ uchars = <<>> /\ ures = <<>>

Procs == 1..MaxProcs

\* a goroutine that has not called newLexer yet
NoCall == [at |-> "go", i |-> 0, captureGroups |-> 0, tokenRxs |-> <<>>,
           rx |-> "nil"]

SessIdle == built = 0 /\ sess = [g \in Procs |-> NoCall]

\* no chain filter and no request
ChainIdle ==
    /\ filters = <<>>
    /\ phase = "none"
    /\ served = FALSE
    /\ stateBag = <<>>
    /\ requested = <<>>
    /\ responded = <<>>

Init ==
    /\ LexIdle
    /\ rxStar \in {"loop", "questplus"}
    /\ UnescapeIdle
    /\ SessIdle
    /\ ChainIdle

\* newLexer(c)
newLexer(c) ==
    /\ pc = "idle"
    /\ pc' = "lex"
    /\ input' = c
    /\ code' = c
    /\ tokenRxs' = assignMatchIndex(1, initialCaptureGroups, <<>>)
    /\ built' = built + 1
    /\ UNCHANGED <<rxStar, lastToken, lastRaw, lastPosition, err, ret, lval, m,
                   emitted, calls, sess>>
    /\ UNCHANGED <<unVars, chainVars>>

\* l.Lex(lval)
Lex ==
    /\ pc = "lex"
    /\ calls - Len(emitted) <= MaxMore
    /\ calls' = calls + 1
    /\ IF Len(code) = 0
       THEN /\ ret' = -1
            /\ m' = <<>>
            /\ UNCHANGED <<code, lastToken, lastRaw, lastPosition, err, lval,
                           emitted>>
       ELSE \E r \in {matchToken(code, rxStar)} :
                /\ lastPosition' = stepPosition(lastPosition, lastRaw)
                /\ m' = r.m
                /\ lastRaw' = r.lastRaw
                /\ code' = r.code
                /\ IF r.m = <<>>
                   THEN /\ err' = Error(lastToken, lastPosition', "invalid token")
                        /\ ret' = -1
                        /\ UNCHANGED <<lastToken, lval, emitted>>
                   ELSE \E g \in {getToken(tokenRxs, r.m)} :
                            /\ lval' = g.s
                            /\ lastToken' = g.s
                            /\ ret' = g.t
                            /\ emitted' = Append(emitted,
                                   [t |-> g.t, s |-> g.s, raw |-> r.lastRaw])
                            /\ UNCHANGED err
    /\ UNCHANGED <<pc, rxStar, input, tokenRxs>>
    /\ UNCHANGED <<unVars, sessVars, chainVars>>

Next == (\E c \in Inputs : newLexer(c)) \/ Lex

Spec == Init /\ [][Next]_vars

\* ------------------------------------------------- unescape on its own
InitUnescape ==
    /\ LexIdle
    /\ rxStar = "loop"
    /\ SessIdle
    /\ ChainIdle
    /\ us \in StringsOver(UnescapeChars, MaxUnLen)
    /\ uchars \in UnescapeSets
    /\ ures = <<>>

CallUnescape ==
    /\ ures = <<>>
    /\ ures' = <<unescape(us, uchars)>>
    /\ UNCHANGED <<us, uchars>>
    /\ UNCHANGED <<lexVars, sessVars, chainVars>>

NextUnescape == CallUnescape

SpecUnescape == InitUnescape /\ [][NextUnescape]_vars

\* ------------------------------------------- newLexer called concurrently
\* Every goroutine calls newLexer once; the steps of the calls interleave.
\* All locals of a call (the table, the loop counters, the compiled
\* expression) are its own: the source keeps nothing at package level.

\* tokenRxs := []*tokenRx{...}: fresh entries, matchIndex still zero
freshTable ==
    [k \in 1..Len(tokenRxTable) |->
        [token         |-> tokenRxTable[k].token,
         expression    |-> tokenRxTable[k].expression,
         captureGroups |-> tokenRxTable[k].captureGroups,
         matchIndex    |-> 0]]

\* faulty variant: the index of an entry ignores the running group count
setMatchIndexFlat(table, i, captureGroups) ==
    [table EXCEPT ![i].matchIndex = (i - 1) + initialCaptureGroups]

\* trx.matchIndex = i + captureGroups, i counting from 1 here
setMatchIndex(table, i, captureGroups) ==
    [table EXCEPT ![i].matchIndex = (i - 1) + captureGroups]

InitSessions ==
    /\ LexIdle
    /\ rxStar = "loop"
    /\ UnescapeIdle
    /\ SessIdle
    /\ ChainIdle

\* the call up to the loop: the table literal and the loop's locals
allocTable(g) ==
    /\ sess[g].at = "go"
    /\ sess' = [sess EXCEPT ![g] = [at            |-> "range",
                                    i             |-> 1,
                                    captureGroups |-> initialCaptureGroups,
                                    tokenRxs      |-> freshTable,
                                    rx            |-> "nil"]]
    /\ UNCHANGED <<built, lexVars, unVars, chainVars>>

\* one iteration of for i, trx := range tokenRxs
rangeTokenRxs(g) ==
    /\ sess[g].at = "range"
    /\ sess[g].i <= Len(sess[g].tokenRxs)
    /\ sess' = [sess EXCEPT
                  ![g].tokenRxs = setMatchIndex(@, sess[g].i,
                                                sess[g].captureGroups),
                  ![g].captureGroups =
                      @ + sess[g].tokenRxs[sess[g].i].captureGroups,
                  ![g].i = @ + 1]
    /\ UNCHANGED <<built, lexVars, unVars, chainVars>>

\* rx := regexp.MustCompile(...)
mustCompile(g) ==
    /\ sess[g].at = "range"
    /\ sess[g].i > Len(sess[g].tokenRxs)
    /\ sess' = [sess EXCEPT ![g].at = "return", ![g].rx = "compiled"]
    /\ built' = built + 1
    /\ UNCHANGED <<lexVars, unVars, chainVars>>

\* return &eskipLex{tokenRxs: tokenRxs, rx: rx, code: code}
returnLexer(g) ==
    /\ sess[g].at = "return"
    /\ sess' = [sess EXCEPT ![g].at = "lexer"]
    /\ UNCHANGED <<built, lexVars, unVars, chainVars>>

NextSessions ==
    \E g \in Procs :
        \/ allocTable(g)
        \/ rangeTokenRxs(g)
        \/ mustCompile(g)
        \/ returnLexer(g)

SpecSessions == InitSessions /\ [][NextSessions]_vars

\* ----------------------------------------------------- the chain filter
\* One request through one chain filter. A child is known by its index in
\* chain.filters, counted from 0 as in the source; what a child's hooks do
\* to the request is outside the chain, so a child is modelled by whether
\* its Request leaves the request served.

Children == [serves : BOOLEAN]

InitChain ==
    /\ LexIdle
    /\ rxStar = "loop"
    /\ UnescapeIdle
    /\ SessIdle
    /\ filters \in UNION {[1..n -> Children] : n \in 0..MaxFilters}
    /\ phase = "created"
    /\ served = FALSE
    /\ stateBag = <<>>
    /\ requested = <<>>
    /\ responded = <<>>

RECURSIVE requestFromNoReturn(_, _, _, _, _)
\* faulty variant: the loop goes on after a child has served the request
requestFromNoReturn(fs, i, sv, bag, log) ==
    IF i >= Len(fs) THEN [served |-> sv, stateBag |-> bag, requested |-> log]
    ELSE IF sv \/ fs[i + 1].serves
    THEN requestFromNoReturn(fs, i + 1, TRUE, <<i>>, Append(log, i))
    ELSE requestFromNoReturn(fs, i + 1, sv, bag, Append(log, i))

RECURSIVE requestFrom(_, _, _, _, _)
\* the loop of Request from child i on: filter.Request(ctx), then the test
\* of ctx.Served()
requestFrom(fs, i, sv, bag, log) ==
    IF i >= Len(fs) THEN [served |-> sv, stateBag |-> bag, requested |-> log]
    ELSE IF sv \/ fs[i + 1].serves
    THEN [served |-> TRUE, stateBag |-> <<i>>, requested |-> Append(log, i)]
    ELSE requestFrom(fs, i + 1, sv, bag, Append(log, i))

\* chain.Request(ctx)
Request ==
    /\ phase = "created"
    /\ \E r \in {requestFrom(filters, 0, served, stateBag, requested)} :
          /\ served' = r.served
          /\ stateBag' = r.stateBag
          /\ requested' = r.requested
    /\ phase' = "requested"
    /\ UNCHANGED <<filters, responded>>
    /\ UNCHANGED <<lexVars, unVars, sessVars>>

\* faulty variant: the exit index in the state bag is ignored
responseFiltersAll(fs, bag) == Len(fs)

\* how many children are left by chain.filters[:index.(int)]
responseFilters(fs, bag) == IF bag # <<>> THEN bag[1] ELSE Len(fs)

\* chain.Response(ctx)
Response ==
    /\ phase = "requested"
    /\ responded' = responded
                      \o [k \in 1..responseFilters(filters, stateBag) |-> k - 1]
    /\ phase' = "responded"
    /\ UNCHANGED <<filters, served, stateBag, requested>>
    /\ UNCHANGED <<lexVars, unVars, sessVars>>

NextChain == Request \/ Response

SpecChain == InitChain /\ [][NextChain]_vars

\* ----------------------------------------------------------------- claims
\* a step of Lex in which matchToken found a match
LexMatched == pc = "lex" /\ Len(code) # 0 /\ m' # <<>>

IsSuffix(a, b) == Len(a) <= Len(b) /\ a = SubSeq(b, Len(b) - Len(a) + 1, Len(b))

RECURSIVE SumRaw(_)
\* the characters consumed by the matches of the calls in e
SumRaw(e) == IF e = <<>> THEN 0 ELSE Len(e[1].raw) + SumRaw(Tail(e))

\* C1: every Lex call that matches a token consumes at least one character:
\* the code left after the call is a strictly shorter suffix of the code
\* before it, and the token's own text is not empty.
C1_MatchConsumes ==
    [][LexMatched =>
          /\ Len(code') < Len(code)
          /\ IsSuffix(code', code)
          /\ Len(m'[2]) >= 1
          /\ m'[0] \o code' = code]_vars

C1_Witness == pc = "lex" /\ m # <<>> /\ Len(code) >= 1 /\ Len(code) < Len(input)

\* C2: over the Lex calls of one session lastPosition never decreases and
\* never exceeds the length of the input, and the lengths consumed by all
\* matches add up to no more than the length of the input.
C2_OffsetBounded ==
    [][/\ lastPosition' >= lastPosition
       /\ lastPosition' <= Len(input')
       /\ SumRaw(emitted') <= Len(input')]_vars

C2_Witness ==
    /\ pc = "lex" /\ Len(emitted) >= 2 /\ err # <<>>
    /\ lastPosition = SumRaw(emitted) /\ lastPosition < Len(input)

RECURSIVE SkipOnlyFrom(_, _)
\* s from p on is nothing but whitespace and // line comments
SkipOnlyFrom(s, p) ==
    IF p > Len(s) THEN TRUE
    ELSE IF s[p] \in Space THEN SkipOnlyFrom(s, p + 1)
    ELSE IF StartsComment(s, p)
    THEN FirstNL(s, p + 2) = 0 \/ SkipOnlyFrom(s, FirstNL(s, p + 2) + 1)
    ELSE FALSE

SkipOnly(s) == SkipOnlyFrom(s, 1)

\* C3: for an input that is nothing but whitespace and // line comments the
\* first Lex call returns end-of-stream and no error is recorded (so no call
\* of the session ever emits a token or records an error).
C3_SkipOnlyInputEnds ==
    (pc = "lex" /\ SkipOnly(input) /\ ret # 0) =>
        (ret = -1 /\ err = <<>> /\ emitted = <<>>)

\* C4: when the code left is not empty and the merged expression does not
\* match at its start, Lex records an error with the message "invalid token",
\* returns -1, leaves lval alone and leaves code and lastToken as they were.
C4_NoMatchIsError ==
    [][(pc = "lex" /\ Len(code) # 0 /\ FirstLead(code, SkipExits(code, 1, rxStar), 1) = NoMatch) =>
          /\ err' # <<>>
          /\ err'[6] = "invalid token"
          /\ ret' = -1
          /\ lval' = lval
          /\ emitted' = emitted
          /\ code' = code
          /\ lastToken' = lastToken]_vars

C4_Witness ==
    /\ pc = "lex" /\ ret = -1 /\ err # <<>> /\ Len(code) >= 1
    /\ emitted # <<>> /\ lval = lastToken /\ lval # <<>>

\* C5: the position in a recorded error is the number of characters consumed
\* by the matches before it (the length of the input less the length of the
\* code left) and the token in it is the text of the token emitted last,
\* empty if none was; an input of one unrecognised character, "@", gives
\* position 0 and an empty token.
C5_ErrorNamesOffsetAndToken ==
    (pc = "lex" /\ err # <<>>) =>
        /\ err[4] = Len(input) - Len(code)
        /\ err[4] = SumRaw(emitted)
        /\ err[2] = (IF emitted = <<>> THEN <<>> ELSE emitted[Len(emitted)].s)
        /\ (input = <<"@">> => err[4] = 0 /\ err[2] = <<>>)

C5_Witness ==
    /\ pc = "lex" /\ err # <<>> /\ err[4] >= 2 /\ err[2] # <<>>
    /\ Len(emitted) >= 2 /\ Len(code) >= 1

\* C6: on every match exactly one table entry's group m[matchIndex] is not
\* empty, that group is the one that wraps the entry's own expression in the
\* merged expression (and holds a text the expression matches), and Lex
\* returns the entry's token, never the -1 getToken falls through to.
NonEmptyEntries ==
    {i \in 1..Len(tokenRxs) : Len(m[tokenRxs[i].matchIndex]) # 0}

C6_OneGroupClassifies ==
    (pc = "lex" /\ m # <<>>) =>
        \E i \in 1..Len(tokenRxs) :
            /\ NonEmptyEntries = {i}
            /\ tokenRxs[i].matchIndex = GroupOf(i)
            /\ m[GroupOf(i)] = m[2]
            /\ MatchExpression(tokenRxs[i].expression, m[2], 1) # NoMatch
            /\ MatchExpression(tokenRxs[i].expression, m[2], 1).end = Len(m[2]) + 1
            /\ ret = tokenRxs[i].token
            /\ ret # -1

C6_Witness ==
    /\ pc = "lex" /\ m # <<>> /\ ret = stringliteral
    /\ NonEmptyEntries = {12}
    /\ Len(m[tokenRxs[12].matchIndex + 1]) # 0

RECURSIVE SumCaptureGroups(_)
\* the captureGroups of the first n table entries, added up
SumCaptureGroups(n) ==
    IF n = 0 THEN 0 ELSE SumCaptureGroups(n - 1) + tokenRxTable[n].captureGroups

\* C7 as stated: newLexer gives every entry the index 3 plus the
\* captureGroups of all earlier entries plus 1.
C7_IndexAsStated ==
    pc = "lex" =>
        \A i \in 1..Len(tokenRxs) :
            tokenRxs[i].matchIndex = 3 + SumCaptureGroups(i - 1) + 1

\* C7 as amended: newLexer gives every entry the index 3 plus the number of
\* earlier entries plus the captureGroups of all earlier entries.
C7_IndexCountsEntries ==
    pc = "lex" =>
        \A i \in 1..Len(tokenRxs) :
            tokenRxs[i].matchIndex = 3 + (i - 1) + SumCaptureGroups(i - 1)

C7_Witness ==
    /\ pc = "lex" /\ Len(tokenRxs) = 13
    /\ tokenRxs[1].matchIndex = 3
    /\ tokenRxs[9].matchIndex = 12
    /\ tokenRxs[13].matchIndex = 18

IsWhitespace(s) == s # <<>> /\ \A k \in 1..Len(s) : s[k] \in Space
IsComment(s) == StartsComment(s, 1) /\ FirstNL(s, 3) \in {0, Len(s)}

\* C8: whitespace and // line comments around a token are consumed with the
\* token's match and never emitted: the text of an emitted token holds the
\* token's own characters only, and is never whitespace or a comment.
C8_SkipNeverEmitted ==
    \A k \in 1..Len(emitted) :
        /\ emitted[k].s # <<>>
        /\ \E a \in 0..Len(emitted[k].raw), b \in 0..Len(emitted[k].raw) :
              /\ a + Len(emitted[k].s) + b = Len(emitted[k].raw)
              /\ SkipOnly(SubSeq(emitted[k].raw, 1, a))
              /\ SubSeq(emitted[k].raw, a + 1, a + Len(emitted[k].s)) = emitted[k].s
              /\ SkipOnly(SubSeq(emitted[k].raw, a + Len(emitted[k].s) + 1,
                                 Len(emitted[k].raw)))
        /\ emitted[k].s[1] \notin Space
        /\ emitted[k].s[Len(emitted[k].s)] \notin Space
        /\ ~IsWhitespace(emitted[k].s)
        /\ ~IsComment(emitted[k].s)

Converted(t, raw) ==
    CASE t = number        -> convertNumber(raw)
      [] t = stringliteral -> convertString(raw)
      [] t = regexpliteral -> convertRegexp(raw)
      [] OTHER             -> raw

RECURSIVE UnescapeByPairs(_, _)
\* one pass over s from the left: a backslash and a following character of
\* chars give that character, a backslash and any other following character
\* give both, a backslash at the end gives nothing, any other character gives
\* itself
UnescapeByPairs(s, chars) ==
    IF s = <<>> THEN <<>>
    ELSE IF s[1] # BS THEN <<s[1]>> \o UnescapeByPairs(Tail(s), chars)
    ELSE IF Len(s) = 1 THEN <<>>
    ELSE IF Contains(chars, s[2])
    THEN <<s[2]>> \o UnescapeByPairs(SubSeq(s, 3, Len(s)), chars)
    ELSE <<BS, s[2]>> \o UnescapeByPairs(SubSeq(s, 3, Len(s)), chars)

\* C10: unescape(s, chars) is the result of that single pass.
C10_UnescapeIsOnePass ==
    ures # <<>> => ures[1] = UnescapeByPairs(us, uchars)

C10_Witness ==
    /\ ures # <<>> /\ uchars = <<SL>>
    /\ us = <<BS, SL, BS, "a">>
    /\ ures[1] = <<SL, BS, "a">>

AllDigits(s) == s # <<>> /\ \A k \in 1..Len(s) : s[k] \in Digit
DigitsDotDigits(s) ==
    \E k \in 2..(Len(s) - 1) :
        s[k] = "." /\ AllDigits(SubSeq(s, 1, k - 1))
                   /\ AllDigits(SubSeq(s, k + 1, Len(s)))
DotDigits(s) == Len(s) >= 2 /\ s[1] = "." /\ AllDigits(Tail(s))
DigitsDot(s) ==
    Len(s) >= 2 /\ s[Len(s)] = "." /\ AllDigits(SubSeq(s, 1, Len(s) - 1))

\* the first Lex call emitted the whole input as one NUMBER token, and every
\* later call returned -1 with no error recorded
OneNumberThenEnd ==
    (pc = "lex" /\ calls >= 1) =>
        /\ Len(emitted) = 1
        /\ emitted[1].t = number
        /\ emitted[1].s = input
        /\ emitted[1].raw = input
        /\ err = <<>>
        /\ calls >= 2 => (ret = -1 /\ code = <<>>)

\* C11 as stated: an input of the form digits.digits, .digits or digits. is
\* lexed as one NUMBER token, and the following Lex call returns -1 with no
\* error recorded.
C11_ThreeNumberForms ==
    (DigitsDotDigits(input) \/ DotDigits(input) \/ DigitsDot(input)) =>
        OneNumberThenEnd

\* C11 as amended: an input of the form digits.digits or .digits is lexed as
\* one NUMBER token and the following Lex call returns -1 with no error
\* recorded; of an input digits. only the digits are lexed as a NUMBER token,
\* and the following Lex call records "invalid token" at the dot.
C11_NumberNeedsLastDigit ==
    /\ (DigitsDotDigits(input) \/ DotDigits(input)) => OneNumberThenEnd
    /\ (DigitsDot(input) /\ pc = "lex" /\ calls >= 1) =>
          /\ Len(emitted) = 1
          /\ emitted[1].t = number
          /\ emitted[1].s = SubSeq(input, 1, Len(input) - 1)
          /\ code = <<".">>
          /\ calls = 1 => err = <<>>
          /\ calls >= 2 =>
                /\ ret = -1
                /\ err # <<>>
                /\ err[2] = SubSeq(input, 1, Len(input) - 1)
                /\ err[4] = Len(input) - 1
                /\ err[6] = "invalid token"

C11_Witness ==
    /\ calls >= 2
    /\ input = <<"1", "2", ".", "5">>
    /\ convertNumber(emitted[1].s) = <<"float64", 125, 1>>
    /\ err = <<>>

RECURSIVE ClosedFrom(_, _, _)
\* reading s from k, a backslash taking the character after it with it, an
\* occurrence of the delimiter d is met that no backslash escapes
ClosedFrom(s, k, d) ==
    IF k > Len(s) THEN FALSE
    ELSE IF s[k] = BS THEN ClosedFrom(s, k + 2, d)
    ELSE IF s[k] = d THEN TRUE
    ELSE ClosedFrom(s, k + 1, d)

\* after leading whitespace s opens a literal that is never closed
StartsUnterminated(s) ==
    LET p == 1 + Run(s, 1, Space)
    IN  /\ p <= Len(s)
        /\ s[p] \in {DQ, BT, SL}
        /\ ~ClosedFrom(s, p + 1, s[p])

\* C12: when the input opens a literal with ", ` or / and every later
\* occurrence of that delimiter is escaped by a backslash, the first Lex call
\* emits no token, records a lexical error and returns -1.
C12_UnterminatedIsError ==
    (pc = "lex" /\ calls >= 1 /\ StartsUnterminated(input)) =>
        (emitted = <<>> /\ ret = -1 /\ err # <<>>)

Lexicon == assignMatchIndex(1, initialCaptureGroups, <<>>)
Compiled == {g \in Procs : sess[g].rx = "compiled"}

Range(s) == {s[k] : k \in 1..Len(s)}
Times(s, x) == Cardinality({k \in 1..Len(s) : s[k] = x})
\* the children whose Request serves, by their index from 0
Serving == {i \in 0..(Len(filters) - 1) : filters[i + 1].serves}
FirstServing == CHOOSE i \in Serving : \A j \in Serving : i <= j

\* C14: Response invokes the Response hook only of children whose Request
\* hook was invoked, and never that of a child after the serving one.
C14_ResponseOnlyOfRequested ==
    /\ Range(responded) \subseteq Range(requested)
    /\ stateBag # <<>> => \A k \in Range(responded) : k <= stateBag[1]

C14_Witness ==
    /\ phase = "responded"
    /\ stateBag # <<>>
    /\ responded # <<>>
    /\ stateBag[1] + 1 < Len(filters)

\* C17: Request invokes the Request hooks of the children in list order;
\* after the first child whose hook leaves the request served it records
\* that child's index in the state bag and invokes no later hook; when no
\* child serves, every child's hook is invoked once and no index is recorded.
C17_RequestStopsAtServing ==
    phase \in {"requested", "responded"} =>
        IF Serving # {}
        THEN /\ requested = [k \in 1..(FirstServing + 1) |-> k - 1]
             /\ stateBag = <<FirstServing>>
             /\ served
        ELSE /\ requested = [k \in 1..Len(filters) |-> k - 1]
             /\ stateBag = <<>>
             /\ ~served

C17_Witness ==
    /\ phase = "requested"
    /\ Cardinality(Serving) >= 2
    /\ FirstServing >= 1
    /\ Len(requested) < Len(filters)

\* C20: in Response every child whose Request hook was invoked, the serving
\* child included, has its Response hook invoked exactly once.
C20_EveryRequestedResponds ==
    phase = "responded" =>
        \A k \in Range(requested) : Times(responded, k) = 1

\* C15: for an input of length n Lex returns at most n tokens, and the
\* caller has received -1 once it has made n + 1 calls.
C15_EndWithinLenPlusOne ==
    pc = "lex" =>
        /\ Len(emitted) <= Len(input)
        /\ calls >= Len(input) + 1 => ret = -1

C15_Witness ==
    /\ Len(input) >= 2
    /\ Len(emitted) = Len(input)
    /\ calls = Len(input) + 1
    /\ ret = -1

\* C16: once a Lex call has returned -1, for exhausted input or for an
\* error, every later call returns -1, emits no token and leaves the
\* remaining code, the position and the recorded error as they were.
C16_EndIsAbsorbing ==
    [][(pc = "lex" /\ ret = -1) =>
          /\ ret' = -1
          /\ emitted' = emitted
          /\ code' = code
          /\ lastPosition' = lastPosition
          /\ err' = err]_vars

C16_Witness ==
    /\ calls - Len(emitted) >= 2
    /\ Len(emitted) >= 1
    /\ ret = -1
    /\ err # <<>>
    /\ code # <<>>

\* C18: when Lex has returned -1 and no error is recorded, the whole input
\* was consumed: no code remains and lastPosition plus the length of the
\* last match is the length of the input.
C18_CleanEndConsumedAll ==
    (pc = "lex" /\ ret = -1 /\ err = <<>>) =>
        /\ code = <<>>
        /\ lastPosition + Len(lastRaw) = Len(input)

C18_Witness ==
    /\ pc = "lex"
    /\ ret = -1
    /\ err = <<>>
    /\ Len(emitted) >= 2
    /\ lastPosition >= 1
    /\ lastPosition + Len(lastRaw) = Len(input)

\* the delimiter of the literal s occurs inside it only after a backslash
DelimiterOnlyEscaped(s) ==
    \A j \in 2..(Len(s) - 1) : s[j] = s[1] => s[j - 1] = BS

\* C19: the text of every emitted string or regexp literal holds its
\* delimiter only as first character, as last character, or right after a
\* backslash; so two backtick literals with whitespace between them are
\* emitted as two tokens.
C19_LiteralEndsAtDelimiter ==
    /\ \A k \in 1..Len(emitted) :
          emitted[k].t \in {stringliteral, regexpliteral} =>
              DelimiterOnlyEscaped(emitted[k].s)
    /\ (input = <<BT, "a", BT, " ", BT, "b", BT>> /\ calls >= 1) =>
          emitted[1].s = <<BT, "a", BT>>

====
